---- MODULE Spec2Model ----
(***************************************************************************)
(* A model of yolo/tools/dataset_helper.py: label discovery                *)
(* (find_labels_path), corpus indexing (create_image_info_dict,            *)
(* index_annotations_by_image) and polygon normalisation                   *)
(* (get_scaled_segmentation).                                              *)
(*                                                                         *)
(* Python values are represented as follows.                               *)
(*   dict             a function whose DOMAIN is the set of keys present   *)
(*   list             a sequence                                           *)
(*   str (file names) a sequence of one-character strings                  *)
(*   None / a value / a raised exception                                   *)
(*                    [kind |-> "None"], [kind |-> "ok", value |-> v],     *)
(*                    [kind |-> "raise", exc |-> name]                     *)
(*   a float x / w    the exact fraction [num |-> x, den |-> w]            *)
(***************************************************************************)
EXTENDS Integers, Sequences, FiniteSets, TLC

VARIABLES pc, dataset, phase_name, labels_found, labels_data, annotation_lookup, build_result, looked_up, annotations, image_dimensions, seg_array_with_cat

vars == <<pc, dataset, phase_name, labels_found, labels_data, annotation_lookup, build_result, looked_up, annotations, image_dimensions, seg_array_with_cat>>

(***************************************************************************)
(* Bounds of the explored inputs.                                          *)
(***************************************************************************)
MaxAnnotations == 2

MaxValues == 3

MaxCorpusAnnotations == 3

MaxImages == 2

MaxNameLen == 3

\* Pixel coordinates: negative, zero, and values on either side of the dimensions.
Coords == {-1, 0, 1, 2}

Categories == {1, 2}

Dims == {[height |-> 1, width |-> 2], [height |-> 2, width |-> 1]}

SeqsUpTo(S, n) == UNION {[1..m -> S] : m \in 0..n}

(***************************************************************************)
(* Result values.                                                          *)
(***************************************************************************)
Pending == [kind |-> "pending"]

None == [kind |-> "None"]

Ok(v) == [kind |-> "ok", value |-> v]

Raise(e) == [kind |-> "raise", exc |-> e]

(***************************************************************************)
(* get_scaled_segmentation                                                 *)
(***************************************************************************)
RECURSIVE FlattenFrom(_, _)
FlattenFrom(segmentation, i) ==
  IF i > Len(segmentation) THEN <<>>
  ELSE segmentation[i] \o FlattenFrom(segmentation, i + 1)

\* Mutant: only the first ring is read (anno["segmentation"][0]).
FlattenFirstRingOnly(segmentation) ==
  IF Len(segmentation) = 0 THEN <<>> ELSE segmentation[1]

\* seg_list = [item for sublist in anno["segmentation"] for item in sublist]
Flatten(segmentation) == FlattenFrom(segmentation, 1)

\* Mutant: an odd trailing value is dropped instead of being rejected.
ReshapeTruncating(seg_list) ==
  Ok([i \in 1..(Len(seg_list) \div 2) |-> <<seg_list[2 * i - 1], seg_list[2 * i]>>])

\* np.array(seg_list).reshape(-1, 2): rows of two, ValueError if the size is odd.
Reshape(seg_list) ==
  IF Len(seg_list) % 2 # 0 THEN Raise("ValueError")
  ELSE Ok([i \in 1..(Len(seg_list) \div 2) |-> <<seg_list[2 * i - 1], seg_list[2 * i]>>])

\* Mutant: the divisor is [h, w] instead of [w, h].
DivideSwapped(rows, w, h) ==
  [i \in 1..Len(rows) |-> <<[num |-> rows[i][1], den |-> h], [num |-> rows[i][2], den |-> w]>>]

\* rows / [w, h]: true division, column 0 by w and column 1 by h (broadcast).
Divide(rows, w, h) ==
  [i \in 1..Len(rows) |-> <<[num |-> rows[i][1], den |-> w], [num |-> rows[i][2], den |-> h]>>]

\* list(chain(*scaled_seg_data))
Chain(rows) == [j \in 1..(2 * Len(rows)) |-> rows[(j + 1) \div 2][2 - (j % 2)]]

\* The body of the loop over annotations for one annotation.
ScaleAnnotation(anno, w, h) ==
  LET category_id == anno["category_id"]
      seg_list == Flatten(anno["segmentation"])
      reshaped == Reshape(seg_list)
  IN  IF reshaped.kind = "raise" THEN reshaped
      ELSE Ok(<<category_id>> \o Chain(Divide(reshaped.value, w, h)))

RECURSIVE ScaleLoop(_, _, _, _, _)
ScaleLoop(annos, i, w, h, acc) ==
  IF i > Len(annos) THEN Ok(acc)
  ELSE LET r == ScaleAnnotation(annos[i], w, h)
       IN  IF r.kind = "raise" THEN r
           ELSE ScaleLoop(annos, i + 1, w, h, Append(acc, r.value))

\* Mutant: "if not annotations" instead of "if annotations is None".
get_scaled_segmentation_falsy(annos, dims) ==
  IF annos.kind = "None" \/ annos.items = <<>> THEN None
  ELSE ScaleLoop(annos.items, 1, dims.width, dims.height, <<>>)

get_scaled_segmentation(annos, dims) ==
  IF annos.kind = "None" THEN None
  ELSE ScaleLoop(annos.items, 1, dims.width, dims.height, <<>>)

(***************************************************************************)
(* Inputs of get_scaled_segmentation.                                      *)
(***************************************************************************)
List(s) == [kind |-> "list", items |-> s]

RECURSIVE Sum(_, _)
Sum(counts, n) == IF n = 0 THEN 0 ELSE counts[n] + Sum(counts, n - 1)

\* How many values each annotation of a list holds: at most MaxAnnotations
\* annotations holding at most MaxValues values in all.
ValueCounts ==
  {c \in SeqsUpTo(0..MaxValues, MaxAnnotations) : Sum(c, Len(c)) <= MaxValues}

\* Where each annotation's values are cut into two rings (0: a single ring).
RingCuts(counts) ==
  {k \in [1..Len(counts) -> 0..MaxValues] : \A i \in 1..Len(counts) : k[i] = 0 \/ k[i] < counts[i]}

Rings(flat, cut) ==
  IF Len(flat) = 0 THEN <<>>
  ELSE IF cut = 0 THEN <<flat>>
  ELSE <<SubSeq(flat, 1, cut), SubSeq(flat, cut + 1, Len(flat))>>

\* The list of annotations with the given value counts, values, categories and cuts.
AnnotationList(counts, values, cats, cuts) ==
  [i \in 1..Len(counts) |->
     [category_id |-> cats[i],
      segmentation |-> Rings(SubSeq(values, Sum(counts, i - 1) + 1, Sum(counts, i)), cuts[i])]]

ExampleAnnotations == <<[category_id |-> 1, segmentation |-> <<<<0, 0, 10, 0, 10, 10, 0, 10>>>>]>>

ExampleDims == [height |-> 10, width |-> 10]

InitScale ==
  /\ pc = "call"
  /\ dataset = Pending /\ phase_name = "" /\ labels_found = Pending
  /\ labels_data = Pending /\ annotation_lookup = Pending /\ build_result = Pending
  /\ looked_up = 0
  /\ \/ /\ annotations = None
        /\ image_dimensions \in Dims
     \/ /\ \E counts \in ValueCounts :
             \E values \in [1..Sum(counts, Len(counts)) -> Coords],
                cats \in [1..Len(counts) -> Categories],
                cuts \in RingCuts(counts) :
               annotations = List(AnnotationList(counts, values, cats, cuts))
        /\ image_dimensions \in Dims
     \/ /\ annotations = List(ExampleAnnotations)
        /\ image_dimensions = ExampleDims
  /\ seg_array_with_cat = Pending

GetScaledSegmentation ==
  /\ pc = "call"
  /\ seg_array_with_cat' = get_scaled_segmentation(annotations, image_dimensions)
  /\ pc' = "done"
  /\ UNCHANGED <<dataset, phase_name, labels_found, labels_data, annotation_lookup, build_result, looked_up, annotations, image_dimensions>>

NextScale == GetScaledSegmentation

SpecScale == InitScale /\ [][NextScale]_vars

(***************************************************************************)
(* Properties of get_scaled_segmentation (under SpecScale).                *)
(* The input is described here ring by ring, independently of the          *)
(* flattening and reshaping of the model.                                  *)
(***************************************************************************)
RECURSIVE ValueCountFrom(_, _)
ValueCountFrom(segmentation, r) ==
  IF r > Len(segmentation) THEN 0
  ELSE Len(segmentation[r]) + ValueCountFrom(segmentation, r + 1)

\* The flat point count of an annotation: the number of values over all its rings.
ValueCount(anno) == ValueCountFrom(anno["segmentation"], 1)

RECURSIVE ValueAtFrom(_, _, _)
ValueAtFrom(segmentation, r, j) ==
  IF j <= Len(segmentation[r]) THEN segmentation[r][j]
  ELSE ValueAtFrom(segmentation, r + 1, j - Len(segmentation[r]))

\* The j-th value of an annotation, counting through its rings in order.
ValueAt(anno, j) == ValueAtFrom(anno["segmentation"], 1, j)

\* The dimension the j-th value is measured against: width for x, height for y.
AxisSize(dims, j) == IF j % 2 = 1 THEN dims.width ELSE dims.height

\* The fraction f equals c / d.
FracIs(f, c, d) == f.den > 0 /\ f.num * d = c * f.den

InUnit(f) == f.den > 0 /\ 0 <= f.num /\ f.num <= f.den

AllEven(annos) == \A i \in 1..Len(annos) : ValueCount(annos[i]) % 2 = 0

ScaleDone == pc = "done" /\ seg_array_with_cat.kind # "pending"

\* The name the specification gives to the failure of the reshape at line 99.
MalformedAnnotationError == "ValueError"

\* C4 (as stated): the result is None iff the argument is None, and every
\* non-None argument, the empty list included, yields a sequence.
C4_AsStated ==
  ScaleDone =>
    /\ (seg_array_with_cat.kind = "None") <=> (annotations.kind = "None")
    /\ annotations.kind = "list" => seg_array_with_cat.kind = "ok"
    /\ (annotations.kind = "list" /\ annotations.items = <<>>) => seg_array_with_cat.value = <<>>

\* C4 (amended): the result is None iff the argument is None; a non-None
\* argument whose annotations all have an even flat point count yields a
\* sequence (the empty one for the empty list), and any other non-None
\* argument makes the call raise, which is not a None result either.
C4_NoneIffNone ==
  ScaleDone =>
    /\ (seg_array_with_cat.kind = "None") <=> (annotations.kind = "None")
    /\ (annotations.kind = "list" /\ AllEven(annotations.items)) => seg_array_with_cat.kind = "ok"
    /\ (annotations.kind = "list" /\ ~AllEven(annotations.items)) => seg_array_with_cat.kind = "raise"
    /\ (annotations.kind = "list" /\ annotations.items = <<>>) => seg_array_with_cat.value = <<>>

C4_Witness ==
  /\ ScaleDone
  /\ annotations.kind = "list"
  /\ annotations.items = <<>>
  /\ seg_array_with_cat.kind = "ok"
  /\ seg_array_with_cat.value = <<>>

\* C5: for a non-None list of annotations with even flat point counts, the
\* output has the length of the input, and its i-th element is the i-th
\* category_id followed by the annotation's values in order, each x divided
\* by the width and each y by the height; the 10x10 square of the
\* specification's example gives category_id, 0, 0, 1, 0, 1, 1, 0, 1.
C5_ScaledInOrder ==
  (ScaleDone /\ annotations.kind = "list" /\ AllEven(annotations.items)) =>
    /\ seg_array_with_cat.kind = "ok"
    /\ Len(seg_array_with_cat.value) = Len(annotations.items)
    /\ \A i \in 1..Len(annotations.items) :
         LET anno == annotations.items[i]
             polygon == seg_array_with_cat.value[i]
         IN  /\ Len(polygon) = 1 + ValueCount(anno)
             /\ polygon[1] = anno["category_id"]
             /\ \A j \in 1..ValueCount(anno) :
                  FracIs(polygon[j + 1], ValueAt(anno, j), AxisSize(image_dimensions, j))
    /\ (annotations.items = ExampleAnnotations /\ image_dimensions = ExampleDims) =>
         LET polygon == seg_array_with_cat.value[1]
             expected == <<0, 0, 1, 0, 1, 1, 0, 1>>
         IN  /\ Len(polygon) = 9
             /\ polygon[1] = ExampleAnnotations[1]["category_id"]
             /\ \A j \in 1..8 : FracIs(polygon[j + 1], expected[j], 1)

C5_Witness ==
  /\ ScaleDone
  /\ annotations.kind = "list"
  /\ Len(annotations.items) = 2
  /\ Len(annotations.items[1]["segmentation"]) = 2
  /\ ValueCount(annotations.items[1]) = 2
  /\ annotations.items[1]["category_id"] # annotations.items[2]["category_id"]
  /\ seg_array_with_cat.kind = "ok"
  /\ Len(seg_array_with_cat.value) = 2

\* C8: when some annotation of the list has an odd flat point count the call
\* fails with MalformedAnnotationError and returns no polygon list at all.
C8_OddCountRaises ==
  (ScaleDone /\ annotations.kind = "list" /\ ~AllEven(annotations.items)) =>
    /\ seg_array_with_cat.kind = "raise"
    /\ seg_array_with_cat.exc = MalformedAnnotationError

C8_Witness ==
  /\ ScaleDone
  /\ annotations.kind = "list"
  /\ Len(annotations.items) = 2
  /\ ValueCount(annotations.items[1]) = 2
  /\ ValueCount(annotations.items[2]) = 1
  /\ seg_array_with_cat.kind = "raise"

\* C10: every output value that comes from an x in [0, w] or a y in [0, h]
\* lies in [0, 1], and every output value that comes from a negative
\* coordinate, an x > w or a y > h lies outside [0, 1] (nothing is clamped).
C10_UnitRangeIffInBounds ==
  (ScaleDone /\ seg_array_with_cat.kind = "ok") =>
    \A i \in 1..Len(annotations.items) :
      \A j \in 1..ValueCount(annotations.items[i]) :
        LET c == ValueAt(annotations.items[i], j)
            d == AxisSize(image_dimensions, j)
        IN  InUnit(seg_array_with_cat.value[i][j + 1]) <=> (0 <= c /\ c <= d)

C10_Witness ==
  /\ ScaleDone
  /\ seg_array_with_cat.kind = "ok"
  /\ Len(annotations.items) = 1
  /\ ValueCount(annotations.items[1]) = 2
  /\ ValueAt(annotations.items[1], 1) = image_dimensions.width
  /\ ValueAt(annotations.items[1], 2) > image_dimensions.height
  /\ InUnit(seg_array_with_cat.value[1][2])
  /\ ~InUnit(seg_array_with_cat.value[1][3])

(***************************************************************************)
(* index_annotations_by_image                                              *)
(***************************************************************************)
EmptyDict == [k \in {} |-> <<>>]

\* Mutant: crowd annotations are indexed like the others.
IndexStepKeepingCrowd(lookup, anno) ==
  IF "iscrowd" \notin DOMAIN anno THEN Raise("KeyError")
  ELSE IF "image_id" \notin DOMAIN anno THEN Raise("KeyError")
  ELSE LET image_id == anno["image_id"]
           created == IF image_id \in DOMAIN lookup THEN lookup ELSE (image_id :> <<>>) @@ lookup
       IN  Ok([created EXCEPT ![image_id] = Append(@, anno)])

\* Mutant: the annotation is inserted at the front of its list.
IndexStepPrepending(lookup, anno) ==
  IF "iscrowd" \notin DOMAIN anno THEN Raise("KeyError")
  ELSE IF anno["iscrowd"] # 0 THEN Ok(lookup)
  ELSE IF "image_id" \notin DOMAIN anno THEN Raise("KeyError")
  ELSE LET image_id == anno["image_id"]
           created == IF image_id \in DOMAIN lookup THEN lookup ELSE (image_id :> <<>>) @@ lookup
       IN  Ok([created EXCEPT ![image_id] = <<anno>> \o @])

\* Mutant: the list of the image is created before the crowd test.
IndexStepCreatingFirst(lookup, anno) ==
  IF "image_id" \notin DOMAIN anno THEN Raise("KeyError")
  ELSE LET image_id == anno["image_id"]
           created == IF image_id \in DOMAIN lookup THEN lookup ELSE (image_id :> <<>>) @@ lookup
       IN  IF "iscrowd" \notin DOMAIN anno THEN Raise("KeyError")
           ELSE IF anno["iscrowd"] # 0 THEN Ok(created)
           ELSE Ok([created EXCEPT ![image_id] = Append(@, anno)])

\* The body of the loop (lines 68-73); a missing key raises KeyError.
IndexStep(lookup, anno) ==
  IF "iscrowd" \notin DOMAIN anno THEN Raise("KeyError")
  ELSE IF anno["iscrowd"] # 0 THEN Ok(lookup)
  ELSE IF "image_id" \notin DOMAIN anno THEN Raise("KeyError")
  ELSE LET image_id == anno["image_id"]
           created == IF image_id \in DOMAIN lookup THEN lookup ELSE (image_id :> <<>>) @@ lookup
       IN  Ok([created EXCEPT ![image_id] = Append(@, anno)])

RECURSIVE IndexLoop(_, _, _)
IndexLoop(annos, i, lookup) ==
  IF i > Len(annos) THEN Ok(lookup)
  ELSE LET r == IndexStep(lookup, annos[i])
       IN  IF r.kind = "raise" THEN r ELSE IndexLoop(annos, i + 1, r.value)

index_annotations_by_image(data) ==
  IF "annotations" \notin DOMAIN data THEN Raise("KeyError")
  ELSE IndexLoop(data["annotations"], 1, EmptyDict)

(***************************************************************************)
(* create_image_info_dict                                                  *)
(***************************************************************************)
LastIndexOf(p, ch) ==
  IF \E i \in 1..Len(p) : p[i] = ch
  THEN CHOOSE i \in 1..Len(p) : p[i] = ch /\ \A j \in (i + 1)..Len(p) : p[j] # ch
  ELSE 0

\* os.path.splitext: the extension starts at the last dot of the last path
\* component, unless only dots precede it there. Indices are 1-based, 0 for
\* "not found".
splitext(p) ==
  LET sepIndex == LastIndexOf(p, "/")
      dotIndex == LastIndexOf(p, ".")
  IN  IF dotIndex > sepIndex /\ \E i \in (sepIndex + 1)..(dotIndex - 1) : p[i] # "."
      THEN <<SubSeq(p, 1, dotIndex - 1), SubSeq(p, dotIndex, Len(p))>>
      ELSE <<p, <<>>>>

\* Mutant: an image key that is already present is kept (first write wins).
ImageInfoStepKeepingFirst(info, img) ==
  IF "file_name" \notin DOMAIN img THEN Raise("KeyError")
  ELSE LET key == splitext(img["file_name"])[1]
       IN  Ok(info @@ (key :> img))

\* One item of the dict comprehension of line 51: a later image replaces an
\* earlier one under the same key.
ImageInfoStep(info, img) ==
  IF "file_name" \notin DOMAIN img THEN Raise("KeyError")
  ELSE LET key == splitext(img["file_name"])[1]
       IN  Ok((key :> img) @@ info)

RECURSIVE ImageInfoLoop(_, _, _)
ImageInfoLoop(images, i, info) ==
  IF i > Len(images) THEN Ok(info)
  ELSE LET r == ImageInfoStep(info, images[i])
       IN  IF r.kind = "raise" THEN r ELSE ImageInfoLoop(images, i + 1, r.value)

\* labels_data is the decoded file; the result is the pair of line 52.
create_image_info_dict(data) ==
  LET annotations_index == index_annotations_by_image(data)
  IN  IF annotations_index.kind = "raise" THEN annotations_index
      ELSE IF "images" \notin DOMAIN data THEN Raise("KeyError")
      ELSE LET image_info_dict == ImageInfoLoop(data["images"], 1, EmptyDict)
           IN  IF image_info_dict.kind = "raise" THEN image_info_dict
               ELSE Ok([annotations_index |-> annotations_index.value,
                        image_info_dict |-> image_info_dict.value])

(***************************************************************************)
(* Corpora.                                                                *)
(***************************************************************************)
ImageIds == {1, 2}

\* The image ids a caller looks up: 3 is carried by no annotation.
LookupIds == ImageIds \cup {3}

\* One well-formed polygon and one with an odd flat point count.
CorpusSegmentations == {<<<<0, 1>>>>, <<<<1>>>>}

CorpusAnnotations ==
  [image_id : ImageIds, category_id : Categories, iscrowd : {0, 1}, segmentation : CorpusSegmentations]

NameChars == {"a", "."}

\* File names with a directory part: a/a.a, a./a, /.a, a.a/, ./a.
PathNames ==
  {<<"a", "/", "a", ".", "a">>, <<"a", ".", "/", "a">>, <<"/", ".", "a">>,
   <<"a", ".", "a", "/">>, <<".", "/", "a">>}

\* Every name of at most MaxNameLen letters and dots, and the names above.
FileNames == (SeqsUpTo(NameChars, MaxNameLen) \ {<<>>}) \cup PathNames

ImageRecord(i, name) == [id |-> i, file_name |-> name, height |-> 1, width |-> 1]

IdleScale ==
  looked_up = 0 /\ annotations = None /\ image_dimensions = Pending /\ seg_array_with_cat = Pending

IdleFind == dataset = Pending /\ phase_name = "" /\ labels_found = Pending

\* Well-formed corpora whose annotations vary.
InitIndex ==
  /\ pc = "call"
  /\ IdleFind /\ IdleScale
  /\ \E n \in 0..MaxCorpusAnnotations : \E annos \in [1..n -> CorpusAnnotations] :
       labels_data = [images |-> <<>>, annotations |-> annos]
  /\ annotation_lookup = Pending /\ build_result = Pending

IndexAnnotationsByImage ==
  /\ pc = "call"
  /\ annotation_lookup' = index_annotations_by_image(labels_data)
  /\ pc' = "indexed"
  /\ UNCHANGED <<dataset, phase_name, labels_found, labels_data, build_result, looked_up, annotations, image_dimensions, seg_array_with_cat>>

\* A caller's per-image step: annotation_lookup.get(k), then get_scaled_segmentation.
LookupAndScale ==
  /\ pc = "indexed"
  /\ annotation_lookup.kind = "ok"
  /\ \E k \in LookupIds, dims \in Dims :
       LET entry == IF k \in DOMAIN annotation_lookup.value
                    THEN List(annotation_lookup.value[k]) ELSE None
       IN  /\ looked_up' = k
           /\ annotations' = entry
           /\ image_dimensions' = dims
           /\ seg_array_with_cat' = get_scaled_segmentation(entry, dims)
           /\ pc' = "scaled"
  /\ UNCHANGED <<dataset, phase_name, labels_found, labels_data, annotation_lookup, build_result>>

NextIndex == IndexAnnotationsByImage \/ LookupAndScale

SpecIndex == InitIndex /\ [][NextIndex]_vars

\* Corpora whose images vary: any file names, no annotations.
InitImages ==
  /\ pc = "call"
  /\ IdleFind /\ IdleScale
  /\ \E n \in 0..MaxImages : \E names \in [1..n -> FileNames] :
       labels_data = [images |-> [i \in 1..n |-> ImageRecord(i, names[i])], annotations |-> <<>>]
  /\ annotation_lookup = Pending /\ build_result = Pending

CreateImageInfoDict ==
  /\ pc = "call"
  /\ build_result' = create_image_info_dict(labels_data)
  /\ pc' = "built"
  /\ UNCHANGED <<dataset, phase_name, labels_found, labels_data, annotation_lookup, looked_up, annotations, image_dimensions, seg_array_with_cat>>

NextBuild == CreateImageInfoDict

SpecImages == InitImages /\ [][NextBuild]_vars

\* A dict without the keys in missing.
Without(dict, missing) == [k \in DOMAIN dict \ missing |-> dict[k]]

\* Annotation and image descriptors, some of them lacking fields.
PartialAnnotations ==
  {Without([image_id |-> 1, category_id |-> 1, iscrowd |-> c, segmentation |-> <<<<0, 1>>>>], m) :
     c \in {0, 1}, m \in SUBSET {"iscrowd", "image_id"}}

PartialImages ==
  {Without(ImageRecord(1, <<"a", ".", "a">>), m) : m \in SUBSET {"file_name"}}

\* Corpora that may lack top-level keys or fields of their descriptors.
InitCorpus ==
  /\ pc = "call"
  /\ IdleFind /\ IdleScale
  /\ \E n \in 0..MaxAnnotations, m \in 0..MaxImages :
       \E annos \in [1..n -> PartialAnnotations], images \in [1..m -> PartialImages],
          missing \in SUBSET {"images", "annotations"} :
         labels_data = Without([images |-> images, annotations |-> annos], missing)
  /\ annotation_lookup = Pending /\ build_result = Pending

SpecCorpus == InitCorpus /\ [][NextBuild]_vars

(***************************************************************************)
(* find_labels_path                                                        *)
(***************************************************************************)
EndsWith(f, suffix) ==
  /\ Len(f) >= Len(suffix)
  /\ SubSeq(f, Len(f) - Len(suffix) + 1, Len(f)) = suffix

\* path.join(dataset_path, "annotations", f"instances_{phase_name}.json")
JsonLabelsPath(phase) == <<"annotations", "instances", phase, "json">>

\* path.join(dataset_path, "labels", phase_name)
TxtLabelsPath(phase) == <<"labels", phase>>

\* ds.json and ds.labels tell what lies at the two paths ("absent", "file" or
\* "dir"); ds.listing is os.listdir of the labels directory.
find_labels_path(ds, phase) ==
  IF ds.json = "file" /\ FALSE THEN Ok(<<JsonLabelsPath(phase), "json">>)
  ELSE IF ds.labels = "dir" /\ {f \in ds.listing : EndsWith(f, <<".", "t", "x", "t">>)} # {}
       THEN Ok(<<TxtLabelsPath(phase), "txt">>)
  ELSE Raise("FileNotFoundError")

PathKinds == {"absent", "file", "dir"}

ListedNames ==
  {<<"a", ".", "t", "x", "t">>, <<"b", ".", "t", "x", "t">>, <<".", "t", "x", "t">>,
   <<"t", "x", "t">>, <<"a", ".", "j", "p", "g">>, <<"a", ".", "t", "x", "t", ".", "b">>}

InitFind ==
  /\ pc = "call"
  /\ \E json \in PathKinds, labels \in PathKinds, listing \in SUBSET ListedNames :
       /\ labels # "dir" => listing = {}
       /\ dataset = [json |-> json, labels |-> labels, listing |-> listing]
  /\ phase_name \in {"train", "val"}
  /\ labels_found = Pending
  /\ labels_data = Pending /\ annotation_lookup = Pending /\ build_result = Pending
  /\ IdleScale

FindLabelsPath ==
  /\ pc = "call"
  /\ labels_found' = find_labels_path(dataset, phase_name)
  /\ pc' = "found"
  /\ UNCHANGED <<dataset, phase_name, labels_data, annotation_lookup, build_result, looked_up, annotations, image_dimensions, seg_array_with_cat>>

NextFind == FindLabelsPath

SpecFind == InitFind /\ [][NextFind]_vars

(***************************************************************************)
(* Properties of index_annotations_by_image (under SpecIndex).             *)
(***************************************************************************)
CorpusAnnos == labels_data["annotations"]

IsNonCrowdOf(anno, k) == anno["iscrowd"] = 0 /\ anno["image_id"] = k

\* The non-crowd annotations of image k, in corpus order.
NonCrowdFor(k) == SelectSeq(CorpusAnnos, LAMBDA anno : IsNonCrowdOf(anno, k))

Indexed == pc # "call" /\ annotation_lookup.kind = "ok"

\* The places of the index: (key, position in the list under that key).
IndexPlaces ==
  UNION {{<<k, i>> : i \in 1..Len(annotation_lookup.value[k])} : k \in DOMAIN annotation_lookup.value}

\* C1: the index holds no crowd-flagged annotation, and the lengths of its
\* lists add up to the number of corpus annotations that are not crowd-flagged.
C1_NoCrowdAndCount ==
  Indexed =>
    /\ \A pl \in IndexPlaces : annotation_lookup.value[pl[1]][pl[2]]["iscrowd"] = 0
    /\ Cardinality(IndexPlaces) =
         Cardinality({i \in 1..Len(CorpusAnnos) : CorpusAnnos[i]["iscrowd"] = 0})

C1_Witness ==
  /\ Indexed
  /\ Len(CorpusAnnos) = 3
  /\ CorpusAnnos[1]["iscrowd"] = 0
  /\ CorpusAnnos[2]["iscrowd"] = 1
  /\ CorpusAnnos[3]["iscrowd"] = 0
  /\ CorpusAnnos[1]["image_id"] = CorpusAnnos[2]["image_id"]
  /\ Cardinality(IndexPlaces) = 2

\* C2: the list under key k is exactly the corpus annotations with
\* image_id = k that are not crowd-flagged, in corpus order; a key exists only
\* for an image with such an annotation, and every indexed annotation sits
\* under its own image_id.
C2_SubsequencePerImage ==
  Indexed =>
    /\ \A k \in ImageIds \cup DOMAIN annotation_lookup.value :
         /\ (k \in DOMAIN annotation_lookup.value) <=> (NonCrowdFor(k) # <<>>)
         /\ (k \in DOMAIN annotation_lookup.value) => annotation_lookup.value[k] = NonCrowdFor(k)
    /\ \A pl \in IndexPlaces : annotation_lookup.value[pl[1]][pl[2]]["image_id"] = pl[1]

C2_Witness ==
  /\ Indexed
  /\ Len(CorpusAnnos) = 3
  /\ \A i \in 1..3 : CorpusAnnos[i]["iscrowd"] = 0
  /\ CorpusAnnos[1]["image_id"] = 1
  /\ CorpusAnnos[2]["image_id"] = 2
  /\ CorpusAnnos[3]["image_id"] = 1
  /\ CorpusAnnos[1] # CorpusAnnos[3]
  /\ annotation_lookup.value[1] = <<CorpusAnnos[1], CorpusAnnos[3]>>
  /\ annotation_lookup.value[2] = <<CorpusAnnos[2]>>

Scaled == pc = "scaled"

HasEntry == looked_up \in DOMAIN annotation_lookup.value

PolygonsMatch(expected) ==
  /\ seg_array_with_cat.kind = "ok"
  /\ Len(seg_array_with_cat.value) = Len(expected)
  /\ \A i \in 1..Len(expected) : seg_array_with_cat.value[i][1] = expected[i]["category_id"]

\* C9 (as stated): scaling the index entry of image k gives one polygon per
\* non-crowd annotation of k, in order and with the same category_ids, whenever
\* the entry exists; it gives None when there is no entry; an entry is never
\* the empty list.
C9_AsStated ==
  Scaled =>
    /\ HasEntry <=> (NonCrowdFor(looked_up) # <<>>)
    /\ HasEntry => annotation_lookup.value[looked_up] # <<>>
    /\ ~HasEntry => seg_array_with_cat.kind = "None"
    /\ HasEntry => PolygonsMatch(NonCrowdFor(looked_up))

\* C9 (amended): as C9, for an entry whose annotations all have an even flat
\* point count; an entry holding an annotation with an odd flat point count
\* makes the call raise.
C9_EntryScaledInOrder ==
  Scaled =>
    /\ HasEntry <=> (NonCrowdFor(looked_up) # <<>>)
    /\ HasEntry => annotation_lookup.value[looked_up] # <<>>
    /\ ~HasEntry => seg_array_with_cat.kind = "None"
    /\ (HasEntry /\ AllEven(NonCrowdFor(looked_up))) => PolygonsMatch(NonCrowdFor(looked_up))
    /\ (HasEntry /\ ~AllEven(NonCrowdFor(looked_up))) => seg_array_with_cat.kind = "raise"

C9_Witness ==
  /\ Scaled
  /\ HasEntry
  /\ Len(CorpusAnnos) = 3
  /\ \A i \in 1..3 : CorpusAnnos[i]["image_id"] = looked_up
  /\ CorpusAnnos[2]["iscrowd"] = 1
  /\ Len(NonCrowdFor(looked_up)) = 2
  /\ CorpusAnnos[1]["category_id"] # CorpusAnnos[3]["category_id"]
  /\ seg_array_with_cat.kind = "ok"
  /\ Len(seg_array_with_cat.value) = 2

(***************************************************************************)
(* Properties of create_image_info_dict (under SpecImages).                *)
(***************************************************************************)
\* The dot at position d of p starts p's extension: no dot or separator
\* follows it, and its path component has a character other than a dot
\* before it.
StartsExtension(p, d) ==
  /\ p[d] = "."
  /\ \A j \in (d + 1)..Len(p) : p[j] \notin {".", "/"}
  /\ \E i \in 1..(d - 1) : p[i] # "." /\ \A j \in i..(d - 1) : p[j] # "/"

\* A file name with its extension stripped.
Stripped(p) ==
  IF \E d \in 1..Len(p) : StartsExtension(p, d)
  THEN SubSeq(p, 1, (CHOOSE d \in 1..Len(p) : StartsExtension(p, d)) - 1)
  ELSE p

Built == pc = "built" /\ build_result.kind = "ok"

CorpusImages == labels_data["images"]

ImageKeys == DOMAIN build_result.value["image_info_dict"]

\* C3: the keys of the image-info index are exactly the stripped file names;
\* there are as many keys as images when no two images share a stripped name;
\* under each key sits the last image of the corpus with that stripped name.
C3_ImageKeys ==
  Built =>
    /\ ImageKeys = {Stripped(CorpusImages[i]["file_name"]) : i \in 1..Len(CorpusImages)}
    /\ (\A i, j \in 1..Len(CorpusImages) :
           i # j => Stripped(CorpusImages[i]["file_name"]) # Stripped(CorpusImages[j]["file_name"]))
         => Cardinality(ImageKeys) = Len(CorpusImages)
    /\ \A i \in 1..Len(CorpusImages) :
         (\A j \in (i + 1)..Len(CorpusImages) :
            Stripped(CorpusImages[j]["file_name"]) # Stripped(CorpusImages[i]["file_name"]))
         => build_result.value["image_info_dict"][Stripped(CorpusImages[i]["file_name"])] = CorpusImages[i]

C3_Witness ==
  /\ Built
  /\ Len(CorpusImages) = 2
  /\ CorpusImages[1]["file_name"] = <<"a", ".", "a">>
  /\ CorpusImages[2]["file_name"] = <<"a">>
  /\ ImageKeys = {<<"a">>}
  /\ build_result.value["image_info_dict"][<<"a">>] = CorpusImages[2]

(***************************************************************************)
(* Failure on malformed corpora (under SpecCorpus).                        *)
(***************************************************************************)
\* The name the specification gives to the failure of a key lookup.
MalformedCorpusError == "KeyError"

Lacks(dict, key) == key \notin DOMAIN dict

\* The corpus lacks a top-level key, or an annotation lacks iscrowd or
\* image_id, or an image lacks file_name.
Malformed(data) ==
  \/ Lacks(data, "annotations")
  \/ Lacks(data, "images")
  \/ \E i \in 1..Len(data["annotations"]) :
       Lacks(data["annotations"][i], "iscrowd") \/ Lacks(data["annotations"][i], "image_id")
  \/ \E i \in 1..Len(data["images"]) : Lacks(data["images"][i], "file_name")

\* C6: building the indexes from a corpus that lacks "annotations" or
\* "images", or in which an annotation lacks iscrowd or image_id or an image
\* lacks file_name, fails with MalformedCorpusError and returns no index.
C6_MalformedCorpusFails ==
  (pc = "built" /\ Malformed(labels_data)) =>
    /\ build_result.kind = "raise"
    /\ build_result.exc = MalformedCorpusError

(***************************************************************************)
(* Label discovery (under SpecFind).                                       *)
(***************************************************************************)
TxtLabelsPresent ==
  /\ dataset.labels = "dir"
  /\ \E f \in dataset.listing : EndsWith(f, <<".", "t", "x", "t">>)

\* The name the specification gives to the failure of the discovery.
LabelsNotFoundError == "FileNotFoundError"

\* C7: discovery returns the text-label directory and "txt" when that
\* directory exists and holds a .txt file; otherwise the structured annotation
\* file and "json" when that file exists; it fails with LabelsNotFoundError
\* when neither the file nor the directory exists.
C7_TxtThenJsonElseFail ==
  pc = "found" =>
    /\ TxtLabelsPresent => labels_found = Ok(<<TxtLabelsPath(phase_name), "txt">>)
    /\ (~TxtLabelsPresent /\ dataset.json = "file")
         => labels_found = Ok(<<JsonLabelsPath(phase_name), "json">>)
    /\ (dataset.json # "file" /\ dataset.labels # "dir")
         => labels_found = Raise(LabelsNotFoundError)

====
